---- MODULE Spec2Model ----
(***************************************************************************)
(* Model of the SaveVideo module (src/Modules/SaveVideo/SaveVideo.C).      *)
(*                                                                         *)
(* Two threads: the engine thread, which runs postInit, process,           *)
(* parseSerial and postUninit one after the other, and the writer thread   *)
(* started by postInit, which runs run().  They share the bounded buffer   *)
(* itsBuf and the atomics itsSaving and itsRunning.  Each action is one    *)
(* step between two accesses to shared state.                              *)
(*                                                                         *)
(* Frames are numbered in acquisition order: frame k is the image of the   *)
(* k-th call of process.  The empty cv::Mat is EmptyMat.                   *)
(***************************************************************************)
EXTENDS Integers, Sequences, FiniteSets, TLC

\* ---------------------------------------------------------------- bounds
\* Number of slots of itsBuf and threshold of the drop test.  Both are 1000
\* in the source; the model scales them together.
QueueSlots == 2
\* Number of calls of process
MaxFrames == 3
\* Number of start commands
MaxStarts == 2
\* Number of stop commands
MaxStops == 2
\* File numbers 0..MaxExisting may exist before the module starts
MaxExisting == 1
\* Number of frames between two SAVEDNUM reports.  It is 100 in the source;
\* the model scales it so that a session reaches it.
ReportScale == 2

\* ------------------------------------------------------------- constants
\* cv::Mat(): the empty image pushed to end a video
EmptyMat == 0
\* itsBuf(1000)
BufSize == QueueSlots
\* filled_size() > 1000
DropThreshold == QueueSlots
\* (++frame % 100) == 0
ReportEvery == ReportScale
\* #define PATHPREFIX
PATHPREFIX == "/jevois/data/savevideo/"
\* the values of the 'filename' parameter that are modelled: the default
\* (relative), an absolute template, and the empty string
FilenameValues == {"video%06d.avi", "/tmp/clip%d.avi", ""}
\* itsFilename before the first session: the empty std::string
NoFilename == <<"", -1>>
\* what writeText can draw when itsFilename is assigned while it is read
TornFilename == <<"?", -1>>

VARIABLES
    itsBuf,        \* jevois::BoundedBuffer<cv::Mat, Block, Block>
    itsSaving,     \* std::atomic<bool>
    itsRunning,    \* std::atomic<bool>
    itsFileNum,    \* int
    itsFilename,   \* std::string, the resolved name of the current file
    mainpc,        \* position of the engine thread
    lastReturn,    \* the handler the engine thread returned from last
    wpc,           \* position of the writer thread in run()
    im,            \* run(): cv::Mat im, the item popped last
    writerOpen,    \* run(): writer.isOpened()
    frame,         \* run(): int frame
    filename,      \* the 'filename' parameter
    usb,           \* the video mapping has a USB output: process(in, out)
    txt,           \* process(in, out): the file name text it draws
    files,         \* names that exist on the filesystem
    finalized,     \* names whose video file has been closed by its writer
    serial,        \* the last message passed to sendSerial
    nacq,          \* number of calls of process so far
    nstart,        \* number of start commands so far
    nstop,         \* number of stop commands so far
    accepted,      \* frames pushed by process, in order
    dropped,       \* frames dropped by process, in order
    written,       \* frames written to a writer, in order
    asess,         \* for each pushed frame, the stop commands before it
    started,       \* a start was given and no stop has pushed since
    content,       \* the frames written to each file opened by run()
    reports        \* the SAVEDNUM values sent by the current writer

shared == <<itsBuf, itsSaving, itsRunning>>
wlocal == <<wpc, im, writerOpen, frame, itsFileNum, itsFilename>>
cfg    == <<filename, usb>>
env    == <<cfg, files, finalized>>
cnt    == <<nacq, nstart, nstop>>
hist   == <<accepted, dropped, written>>
sess   == <<asess, started, content, reports>>
vars   == <<itsBuf, itsSaving, itsRunning, itsFileNum, itsFilename, mainpc,
            lastReturn, wpc, im, writerOpen, frame, filename, usb, txt,
            files, finalized, serial, nacq, nstart, nstop, accepted,
            dropped, written, asess, started, content, reports>>

\* ------------------------------------------------------------ operators

\* BoundedBuffer::filled_size()
filled_size(q) == Len(q)

\* push that never blocks (BlockingBehavior::Block left out)
CanPush_NoBlock(q) == TRUE

\* BoundedBuffer::push with BlockingBehavior::Block: the caller is blocked
\* while no slot is free
CanPush(q) == Len(q) < BufSize

\* BoundedBuffer::push, once a slot is free
push(q, x) == Append(q, x)

\* im.empty()
IsEmpty(x) == x = EmptyMat

\* if (fn[0] != '/') fn = PATHPREFIX + fn
IsAbsolute(fn) == fn \in {"/tmp/clip%d.avi"}
AddPrefix(fn) == IF IsAbsolute(fn) THEN fn ELSE PATHPREFIX \o fn

\* std::snprintf(tmp, 2047, fn.c_str(), itsFileNum): the template with its
\* directive replaced by the number
Format(fn, n) == <<fn, n>>

\* std::ifstream ifs(tmp); ifs.is_open()
Exists(name, fs) == name \in fs

\* the file-number loop without the existence test
ProbeFileNum_NoCheck(fn, n, fs) == n

\* the while (true) loop that fills in the file number: the number it
\* stops at, starting from n
RECURSIVE ProbeFileNum(_, _, _)
ProbeFileNum(fn, n, fs) ==
    IF Exists(Format(fn, n), fs) = FALSE THEN n
    ELSE ProbeFileNum(fn, n + 1, fs)

\* the frames in a queue, without the empty images
RECURSIVE Frames(_)
Frames(q) ==
    IF q = <<>> THEN <<>>
    ELSE IF IsEmpty(Head(q)) THEN Frames(Tail(q))
    ELSE <<Head(q)>> \o Frames(Tail(q))

IsPrefix(s, t) == Len(s) <= Len(t) /\ SubSeq(t, 1, Len(s)) = s

\* ----------------------------------------------------------------- Init
\* The state after the constructor: itsBuf(1000), itsSaving(false),
\* itsFileNum(0), itsRunning(false)
InitWith(u) ==
    /\ itsBuf = <<>>
    /\ itsSaving = FALSE
    /\ itsRunning = FALSE
    /\ itsFileNum = 0
    /\ itsFilename = NoFilename
    /\ mainpc = "constructed"
    /\ lastReturn = "SaveVideo"
    /\ wpc = "notstarted"
    /\ im = EmptyMat
    /\ writerOpen = FALSE
    /\ frame = 0
    /\ filename \in FilenameValues
    /\ \E S \in SUBSET (0 .. MaxExisting) :
          files = IF filename = "" THEN {}
                  ELSE {Format(AddPrefix(filename), n) : n \in S}
    /\ finalized = files
    /\ serial = "none"
    /\ nacq = 0 /\ nstart = 0 /\ nstop = 0
    /\ accepted = <<>>
    /\ dropped = <<>>
    /\ written = <<>>
    /\ usb = u
    /\ txt = NoFilename
    /\ asess = <<>>
    /\ started = FALSE
    /\ content = [x \in {} |-> <<>>]
    /\ reports = <<>>

\* process(InputFrame &&): the video mapping has no USB output
Init == InitWith(FALSE)

\* process(InputFrame &&, OutputFrame &&): the video mapping has a USB output
InitUSB == InitWith(TRUE)

\* ------------------------------------------------- engine thread: postInit
postInit ==
    /\ mainpc = "constructed"
    /\ itsRunning' = TRUE
    /\ wpc' = "loop"
    /\ mainpc' = "idle"
    /\ lastReturn' = "postInit"
    /\ UNCHANGED <<itsBuf, itsSaving, im, writerOpen, frame, itsFileNum,
                   itsFilename, env, serial, cnt, hist,
                   txt, sess>>

\* ------------------------------------------------- engine thread: process
\* where process goes once it is done with the queue: process(in) is at its
\* end (line 184), process(in, out) goes on to draw its text (line 150)
AfterQueue == IF usb THEN "p_text" ELSE "idle"
ReturnAfterQueue == IF usb THEN lastReturn ELSE "process"

\* process without the test of itsSaving
process_Begin_NoTest ==
    /\ mainpc = "idle"
    /\ nacq < MaxFrames
    /\ nacq' = nacq + 1
    /\ mainpc' = "p_check"
    /\ UNCHANGED <<shared, lastReturn, wlocal, env, serial, nstart, nstop,
                   hist,
                   txt, sess>>

\* inframe.get(); if (itsSaving.load())
process_Begin ==
    /\ mainpc = "idle"
    /\ nacq < MaxFrames
    /\ nacq' = nacq + 1
    /\ IF itsSaving
       THEN mainpc' = "p_check" /\ UNCHANGED lastReturn
       ELSE mainpc' = AfterQueue /\ lastReturn' = ReturnAfterQueue
    /\ UNCHANGED <<shared, wlocal, env, serial, nstart, nstop, hist,
                   txt, sess>>

\* if (itsBuf.filled_size() > 1000) LERROR(... DROPPING FRAME) else ...
process_Check ==
    /\ mainpc = "p_check"
    /\ IF filled_size(itsBuf) > DropThreshold
       THEN /\ dropped' = Append(dropped, nacq)
            /\ mainpc' = AfterQueue
            /\ lastReturn' = ReturnAfterQueue
       ELSE /\ mainpc' = "p_push"
            /\ UNCHANGED <<dropped, lastReturn>>
    /\ UNCHANGED <<shared, wlocal, env, serial, cnt, accepted, written,
                   txt, sess>>

\* process pushing at the head of the queue
process_Push_Front ==
    /\ mainpc = "p_push"
    /\ CanPush(itsBuf)
    /\ itsBuf' = <<nacq>> \o itsBuf
    /\ accepted' = Append(accepted, nacq)
    /\ asess' = Append(asess, nstop)
    /\ mainpc' = AfterQueue
    /\ lastReturn' = ReturnAfterQueue
    /\ UNCHANGED <<itsSaving, itsRunning, wlocal, env, serial, cnt, dropped,
                   written,
                   txt, started, content, reports>>

\* else itsBuf.push(jevois::rawimage::convertToCvBGR(inimg)); inframe.done()
process_Push ==
    /\ mainpc = "p_push"
    /\ CanPush(itsBuf)
    /\ itsBuf' = push(itsBuf, nacq)
    /\ accepted' = Append(accepted, nacq)
    /\ asess' = Append(asess, nstop)
    /\ mainpc' = AfterQueue
    /\ lastReturn' = ReturnAfterQueue
    /\ UNCHANGED <<itsSaving, itsRunning, wlocal, env, serial, cnt, dropped,
                   written,
                   txt, started, content, reports>>

\* process(in, out): writeText(outimg, itsFilename.c_str(), ...) starts
\* reading the string
process_Text_Begin ==
    /\ mainpc = "p_text"
    /\ txt' = itsFilename
    /\ mainpc' = "p_draw"
    /\ UNCHANGED <<shared, lastReturn, wlocal, env, serial, cnt, hist, sess>>

\* process(in, out): writeText is done, outframe.send().  The read is not
\* synchronized with run(): when itsFilename was assigned meanwhile, the
\* text is the old name, the new name or neither
process_Text_End ==
    /\ mainpc = "p_draw"
    /\ txt' \in (IF txt = itsFilename THEN {txt}
                 ELSE {txt, itsFilename, TornFilename})
    /\ mainpc' = "idle"
    /\ lastReturn' = "process"
    /\ UNCHANGED <<shared, wlocal, env, serial, cnt, hist, sess>>

\* --------------------------------------- engine thread: parseSerial("start")
start ==
    /\ mainpc = "idle"
    /\ nstart < MaxStarts
    /\ nstart' = nstart + 1
    /\ itsSaving' = TRUE
    /\ started' = TRUE
    /\ serial' = "SAVESTART"
    /\ lastReturn' = "start"
    /\ UNCHANGED <<itsBuf, itsRunning, mainpc, wlocal, env, nacq, nstop,
                   hist,
                   txt, asess, content, reports>>

\* ---------------------------------------- engine thread: parseSerial("stop")
\* stop without itsSaving.store(false)
stop_Begin_NoStore ==
    /\ mainpc = "idle"
    /\ nstop < MaxStops
    /\ nstop' = nstop + 1
    /\ serial' = "SAVESTOP"
    /\ mainpc' = "s_push"
    /\ UNCHANGED <<shared, lastReturn, wlocal, env, nacq, nstart, hist, txt,
                   sess>>

\* itsSaving.store(false); sendSerial("SAVESTOP")
stop_Begin ==
    /\ mainpc = "idle"
    /\ nstop < MaxStops
    /\ nstop' = nstop + 1
    /\ itsSaving' = FALSE
    /\ serial' = "SAVESTOP"
    /\ mainpc' = "s_push"
    /\ UNCHANGED <<itsBuf, itsRunning, lastReturn, wlocal, env, nacq, nstart,
                   hist,
                   txt, sess>>

\* itsBuf.push(cv::Mat())
stop_Push ==
    /\ mainpc = "s_push"
    /\ CanPush(itsBuf)
    /\ itsBuf' = push(itsBuf, EmptyMat)
    /\ started' = FALSE
    /\ mainpc' = "s_wait"
    /\ UNCHANGED <<itsSaving, itsRunning, lastReturn, wlocal, env, serial,
                   cnt, hist,
                   txt, asess, content, reports>>

\* stop without the wait for the buffer to empty
stop_Wait_NoWait ==
    /\ mainpc = "s_wait"
    /\ mainpc' = "s_sync"
    /\ UNCHANGED <<shared, lastReturn, wlocal, env, serial, cnt, hist,
                   txt, sess>>

\* while (itsBuf.filled_size()) { LINFO(...); sleep_for(200ms); }
stop_Wait ==
    /\ mainpc = "s_wait"
    /\ filled_size(itsBuf) = 0
    /\ mainpc' = "s_sync"
    /\ UNCHANGED <<shared, lastReturn, wlocal, env, serial, cnt, hist,
                   txt, sess>>

\* std::system("/bin/sync"); LINFO("Video ... saved."); return
stop_Return ==
    /\ mainpc = "s_sync"
    /\ mainpc' = "idle"
    /\ lastReturn' = "stop"
    /\ UNCHANGED <<shared, wlocal, env, serial, cnt, hist,
                   txt, sess>>

\* an unsupported command that falls into the stop branch
unsupported_AsStop ==
    /\ mainpc = "idle"
    /\ itsSaving' = FALSE
    /\ lastReturn' = "unsupported"
    /\ UNCHANGED <<itsBuf, itsRunning, mainpc, wlocal, env, serial, cnt, hist,
                   txt, sess>>

\* ------------------------------ engine thread: parseSerial(anything else)
\* else throw std::runtime_error("Unsupported module command")
unsupported ==
    /\ mainpc = "idle"
    /\ lastReturn' = "unsupported"
    /\ UNCHANGED <<shared, mainpc, wlocal, env, serial, cnt, hist,
                   txt, sess>>

\* ---------------------------------------------- engine thread: postUninit
\* itsRunning.store(false)
postUninit_Begin ==
    /\ mainpc = "idle"
    /\ itsRunning' = FALSE
    /\ mainpc' = "u_push"
    /\ UNCHANGED <<itsBuf, itsSaving, lastReturn, wlocal, env, serial, cnt,
                   hist,
                   txt, sess>>

\* itsBuf.push(cv::Mat())
postUninit_Push ==
    /\ mainpc = "u_push"
    /\ CanPush(itsBuf)
    /\ itsBuf' = push(itsBuf, EmptyMat)
    /\ mainpc' = "u_join"
    /\ UNCHANGED <<itsSaving, itsRunning, lastReturn, wlocal, env, serial,
                   cnt, hist,
                   txt, sess>>

\* try { itsRunFut.get(); } catch (...) { warnAndIgnoreException(); }
\* then sync and return
postUninit_Join ==
    /\ mainpc = "u_join"
    /\ wpc \in {"done", "fatal"}
    /\ mainpc' = "uninit"
    /\ lastReturn' = "postUninit"
    /\ UNCHANGED <<shared, wlocal, env, serial, cnt, hist,
                   txt, sess>>

\* ------------------------------------------------------ writer thread: run
\* the writer opened where it is declared, before any frame is popped
run_Loop_EagerOpen ==
    /\ wpc = "loop"
    /\ IF itsRunning
       THEN wpc' = "pop" /\ writerOpen' = TRUE /\ frame' = 0
            /\ reports' = <<>>
       ELSE wpc' = "done" /\ UNCHANGED <<writerOpen, frame, reports>>
    /\ UNCHANGED <<shared, mainpc, lastReturn, im, itsFileNum, itsFilename,
                   env, serial, cnt, hist, txt, asess, started, content>>

\* while (itsRunning.load()) { cv::VideoWriter writer; int frame = 0;
run_Loop ==
    /\ wpc = "loop"
    /\ IF itsRunning
       THEN wpc' = "pop" /\ writerOpen' = FALSE /\ frame' = 0
            /\ reports' = <<>>
       ELSE wpc' = "done" /\ UNCHANGED <<writerOpen, frame, reports>>
    /\ UNCHANGED <<shared, mainpc, lastReturn, im, itsFileNum, itsFilename,
                   env, serial, cnt, hist,
                   txt, asess, started, content>>

\* run() without if (im.empty()) break
run_Pop_NoBreak ==
    /\ wpc = "pop"
    /\ itsBuf # <<>>
    /\ im' = Head(itsBuf)
    /\ itsBuf' = Tail(itsBuf)
    /\ wpc' = IF writerOpen = FALSE THEN "open" ELSE "write"
    /\ UNCHANGED <<itsSaving, itsRunning, mainpc, lastReturn, writerOpen,
                   frame, itsFileNum, itsFilename, env, serial, cnt, hist,
                   txt, sess>>

\* cv::Mat im = itsBuf.pop(); if (im.empty()) break;
\* if (writer.isOpened() == false) ...
run_Pop ==
    /\ wpc = "pop"
    /\ itsBuf # <<>>
    /\ im' = Head(itsBuf)
    /\ itsBuf' = Tail(itsBuf)
    /\ wpc' = IF IsEmpty(Head(itsBuf)) THEN "incr"
              ELSE IF writerOpen = FALSE THEN "open" ELSE "write"
    /\ UNCHANGED <<itsSaving, itsRunning, mainpc, lastReturn, writerOpen,
                   frame, itsFileNum, itsFilename, env, serial, cnt, hist,
                   txt, sess>>

\* std::string fn = filename::get();
\* if (fn.empty()) LFATAL("Cannot save to an empty filename");
run_EmptyName ==
    /\ wpc = "open"
    /\ filename = ""
    /\ wpc' = "fatal"
    /\ UNCHANGED <<shared, mainpc, lastReturn, im, writerOpen, frame,
                   itsFileNum, itsFilename, env, serial, cnt, hist,
                   txt, sess>>

\* the file-number loop, then writer.open(...) succeeds;
\* sendSerial("SAVETO " + itsFilename)
run_Open ==
    /\ wpc = "open"
    /\ filename # ""
    /\ LET fn == AddPrefix(filename)
           n  == ProbeFileNum(fn, itsFileNum, files)
       IN  /\ itsFileNum' = n
           /\ itsFilename' = Format(fn, n)
           /\ files' = files \cup {Format(fn, n)}
           /\ content' = [x \in DOMAIN content \cup {Format(fn, n)} |->
                             IF x \in DOMAIN content THEN content[x]
                             ELSE <<>>]
    /\ writerOpen' = TRUE
    /\ serial' = "SAVETO"
    /\ wpc' = "write"
    /\ UNCHANGED <<shared, mainpc, lastReturn, im, frame, cfg,
                   finalized, cnt, hist,
                   txt, asess, started, reports>>

\* a failed writer.open(...) reported with LERROR: run() goes on with the
\* next image and tries again
run_OpenFails_Retry ==
    /\ wpc = "open"
    /\ filename # ""
    /\ LET fn == AddPrefix(filename)
           n  == ProbeFileNum(fn, itsFileNum, files)
       IN  /\ itsFileNum' = n
           /\ itsFilename' = Format(fn, n)
    /\ wpc' = "pop"
    /\ UNCHANGED <<shared, mainpc, lastReturn, im, writerOpen, frame, env,
                   serial, cnt, hist, txt, sess>>

\* the file-number loop, then writer.open(...) == false: LFATAL
run_OpenFails ==
    /\ wpc = "open"
    /\ filename # ""
    /\ LET fn == AddPrefix(filename)
           n  == ProbeFileNum(fn, itsFileNum, files)
       IN  /\ itsFileNum' = n
           /\ itsFilename' = Format(fn, n)
    /\ wpc' = "fatal"
    /\ UNCHANGED <<shared, mainpc, lastReturn, im, writerOpen, frame, env,
                   serial, cnt, hist,
                   txt, sess>>

\* the report test made on the count before the increment:
\* (frame++ % 100) == 0
run_Write_PostIncr ==
    /\ wpc = "write"
    /\ written' = Append(written, im)
    /\ frame' = frame + 1
    /\ content' = [content EXCEPT ![itsFilename] = Append(@, im)]
    /\ IF frame % ReportEvery = 0
       THEN serial' = "SAVEDNUM" /\ reports' = Append(reports, frame + 1)
       ELSE UNCHANGED <<serial, reports>>
    /\ wpc' = "pop"
    /\ UNCHANGED <<shared, mainpc, lastReturn, im, writerOpen, itsFileNum,
                   itsFilename, env, cnt, accepted, dropped,
                   txt, asess, started>>

\* writer << im; if ((++frame % 100) == 0) sendSerial("SAVEDNUM " + ...)
run_Write ==
    /\ wpc = "write"
    /\ written' = Append(written, im)
    /\ frame' = frame + 1
    /\ content' = [content EXCEPT ![itsFilename] = Append(@, im)]
    /\ IF (frame + 1) % ReportEvery = 0
       THEN serial' = "SAVEDNUM" /\ reports' = Append(reports, frame + 1)
       ELSE UNCHANGED <<serial, reports>>
    /\ wpc' = "pop"
    /\ UNCHANGED <<shared, mainpc, lastReturn, im, writerOpen, itsFileNum,
                   itsFilename, env, cnt, accepted, dropped,
                   txt, asess, started>>

\* the file number incremented only when a file was opened
run_Incr_IfOpened ==
    /\ wpc = "incr"
    /\ itsFileNum' = IF writerOpen THEN itsFileNum + 1 ELSE itsFileNum
    /\ wpc' = "close"
    /\ UNCHANGED <<shared, mainpc, lastReturn, im, writerOpen, frame,
                   itsFilename, env, serial, cnt, hist,
                   txt, sess>>

\* --itsFileNum in place of ++itsFileNum
run_Incr_Decrement ==
    /\ wpc = "incr"
    /\ itsFileNum' = itsFileNum - 1
    /\ wpc' = "close"
    /\ UNCHANGED <<shared, mainpc, lastReturn, im, writerOpen, frame,
                   itsFilename, env, serial, cnt, hist,
                   txt, sess>>

\* run() without ++itsFileNum
run_Incr_None ==
    /\ wpc = "incr"
    /\ wpc' = "close"
    /\ UNCHANGED <<shared, mainpc, lastReturn, im, writerOpen, frame,
                   itsFileNum, itsFilename, env, serial, cnt, hist, txt,
                   sess>>

\* ++itsFileNum (after the break)
run_Incr ==
    /\ wpc = "incr"
    /\ itsFileNum' = itsFileNum + 1
    /\ wpc' = "close"
    /\ UNCHANGED <<shared, mainpc, lastReturn, im, writerOpen, frame,
                   itsFilename, env, serial, cnt, hist,
                   txt, sess>>

\* end of the body of the outer loop: writer goes out of scope and closes
\* the file
run_Close ==
    /\ wpc = "close"
    /\ finalized' = IF writerOpen THEN finalized \cup {itsFilename}
                    ELSE finalized
    /\ writerOpen' = FALSE
    /\ wpc' = "loop"
    /\ UNCHANGED <<shared, mainpc, lastReturn, im, frame, itsFileNum,
                   itsFilename, cfg, files, serial, cnt, hist,
                   txt, sess>>

\* ----------------------------------------------------------------- Next
Next ==
    \/ postInit
    \/ process_Begin
    \/ process_Check
    \/ process_Push
    \/ start
    \/ stop_Begin
    \/ stop_Push
    \/ stop_Wait
    \/ stop_Return
    \/ unsupported
    \/ postUninit_Begin
    \/ postUninit_Push
    \/ postUninit_Join
    \/ run_Loop
    \/ run_Pop
    \/ run_EmptyName
    \/ run_Open
    \/ run_OpenFails
    \/ run_Write
    \/ run_Incr
    \/ run_Close

Spec == Init /\ [][Next]_vars

\* the module with a USB output
NextUSB ==
    \/ Next
    \/ process_Text_Begin
    \/ process_Text_End

SpecUSB == InitUSB /\ [][NextUSB]_vars

\* the steps the engine thread takes inside a handler it has entered
EngineStep ==
    \/ process_Check
    \/ process_Push
    \/ stop_Push
    \/ stop_Wait
    \/ stop_Return
    \/ postUninit_Push
    \/ postUninit_Join

\* the steps of the writer thread
WriterStep ==
    \/ run_Loop
    \/ run_Pop
    \/ run_EmptyName
    \/ run_Open
    \/ run_OpenFails
    \/ run_Write
    \/ run_Incr
    \/ run_Close

\* both threads are scheduled fairly: a thread that can take a step
\* eventually takes one
FairSpec == Spec /\ WF_vars(EngineStep) /\ WF_vars(WriterStep)

TypeOK ==
    /\ itsSaving \in BOOLEAN /\ itsRunning \in BOOLEAN
    /\ writerOpen \in BOOLEAN
    /\ itsFileNum \in Nat /\ frame \in Nat
    /\ Len(itsBuf) <= BufSize

\* =============================================================== claims

\* the frame the writer thread has popped and not yet written
InFlight == IF wpc \in {"open", "write"} THEN <<im>> ELSE <<>>

\* the stop handler has left its wait loop, and nothing else ran since
StopReturned == mainpc = "s_sync" \/ (mainpc = "idle" /\ lastReturn = "stop")

RECURSIVE Increasing(_)
Increasing(s) ==
    IF Len(s) < 2 THEN TRUE
    ELSE s[1] < s[2] /\ Increasing(Tail(s))

Cex_C2 == (mainpc = "idle" /\ lastReturn = "stop") => writerOpen = FALSE

\* C3 (as claimed): the writer thread consuming the empty image of a stop
\* of a session without a frame leaves the file number as it was.
Cex_C3 ==
    [][(wpc = "incr" /\ writerOpen = FALSE /\ itsRunning /\ wpc' # wpc)
         => itsFileNum' = itsFileNum]_vars

\* C3 (amended): the writer thread consuming the empty image of a session
\* without a frame increments the file number by exactly one.
Thm_C3 ==
    [][(wpc = "incr" /\ writerOpen = FALSE /\ wpc' # wpc)
         => itsFileNum' = itsFileNum + 1]_vars

Wit_C3 ==
    /\ wpc = "close" /\ writerOpen = FALSE /\ itsRunning
    /\ nstop >= 1 /\ written = <<>> /\ itsFileNum = 1

\* C4: the writer thread never ends while a frame is still in the queue.
Cex_C4 == wpc = "done" => Frames(itsBuf) = <<>>

\* C5: process never waits on the queue: when it comes to push, a slot is
\* free.
Cex_C5 == mainpc = "p_push" => CanPush(itsBuf)

Thm_C7 ==
    /\ [][(mainpc = "s_wait" /\ mainpc' # "s_wait")
            => (itsBuf = <<>> /\ mainpc' = "s_sync")]_vars
    /\ [](StopReturned => itsBuf = <<>>)

Wit_C7 == mainpc = "s_sync" /\ Len(written) >= 2 /\ wpc = "incr"

\* C8: the name the encoder is opened on does not exist, its number is the
\* smallest one from the file number on whose name does not exist, and the
\* file number is set to it.
Thm_C8 ==
    [][(wpc = "open" /\ writerOpen')
         => LET fn == AddPrefix(filename)
            IN  /\ itsFilename' = Format(fn, itsFileNum')
                /\ itsFilename' \notin files
                /\ itsFileNum' >= itsFileNum
                /\ \A k \in itsFileNum .. (itsFileNum' - 1) :
                      Format(fn, k) \in files]_vars

Wit_C8 ==
    /\ writerOpen /\ nstop = 0 /\ itsFileNum = MaxExisting + 1
    /\ Len(written) >= 1

\* C9: the file number never decreases.
Thm_C9 == [][itsFileNum' >= itsFileNum]_vars

Wit_C9 == itsFileNum >= 3 /\ nstop = 2 /\ wpc = "pop"

\* C10: process gets to the queue only when it read itsSaving as true, a
\* call of process made while itsSaving is false returns with the queue as
\* it was, and only the start command sets itsSaving.
Thm_C10 ==
    /\ [](mainpc \in {"p_check", "p_push"} => itsSaving)
    /\ [][(itsSaving = FALSE /\ nacq' = nacq + 1)
            => (itsBuf' = itsBuf /\ accepted' = accepted
                /\ mainpc' = "idle" /\ lastReturn' = "process")]_vars
    /\ [][(itsSaving = FALSE /\ itsSaving') => nstart' = nstart + 1]_vars

Wit_C10 ==
    /\ itsSaving = FALSE /\ mainpc = "idle" /\ lastReturn = "process"
    /\ nstart >= 1 /\ nstop >= 1 /\ Len(accepted) < nacq

\* C11: a command other than start and stop throws and leaves itsSaving,
\* the queue, the file number and the state of run() as they were, and the
\* engine thread is back where it was.
Thm_C11 ==
    [][(lastReturn' = "unsupported" /\ lastReturn # "unsupported")
         => (/\ mainpc = "idle" /\ mainpc' = "idle"
             /\ UNCHANGED <<itsSaving, itsRunning, itsBuf, itsFileNum,
                            itsFilename, wpc, im, writerOpen, frame, files,
                            accepted, written>>)]_vars

Wit_C11 ==
    /\ lastReturn = "unsupported" /\ itsSaving /\ writerOpen
    /\ itsBuf # <<>> /\ written # <<>>

\* C12: the encoder is opened, and a file created, only by the step of
\* run() that holds a non-empty image while no encoder is open; when run()
\* has popped the empty image before any frame of the session, no encoder
\* is open.
Thm_C12 ==
    /\ [][((writerOpen' /\ writerOpen = FALSE) \/ files' # files
               \/ DOMAIN content' # DOMAIN content)
            => (wpc = "open" /\ IsEmpty(im) = FALSE
                /\ writerOpen = FALSE)]_vars
    /\ []((wpc = "incr" /\ frame = 0) => writerOpen = FALSE)

Wit_C12 ==
    /\ wpc = "write" /\ writerOpen /\ written = <<>>
    /\ nstop = 1 /\ asess = <<1>> /\ itsFileNum >= 1
    /\ Cardinality(DOMAIN content) = 1

\* C15: the empty image is never written and never reaches the opening of
\* the encoder: every item written is a frame, the image run() holds when
\* it opens or writes is a frame, and popping the empty image takes run()
\* to the end of the session with nothing written or opened.
Thm_C15 ==
    /\ [](\A i \in 1 .. Len(written) : IsEmpty(written[i]) = FALSE)
    /\ [](wpc \in {"open", "write"} => IsEmpty(im) = FALSE)
    /\ [][(wpc = "pop" /\ wpc' # "pop" /\ IsEmpty(Head(itsBuf)))
            => (wpc' = "incr" /\ written' = written /\ files' = files
                /\ writerOpen' = writerOpen)]_vars

Wit_C15 ==
    /\ wpc = "incr" /\ IsEmpty(im) /\ writerOpen /\ Len(written) >= 2

\* the frames pushed after s stop commands and before the next one
SessionFrames(s) ==
    LET I == {i \in 1 .. Len(accepted) : asess[i] = s}
    IN  IF I = {} THEN <<>>
        ELSE SubSeq(accepted, CHOOSE i \in I : \A j \in I : i <= j,
                              CHOOSE i \in I : \A j \in I : j <= i)

\* the files run() has written a frame to
Recorded == {n \in DOMAIN content : content[n] # <<>>}

\* C13: a frame is pushed only between a start and the push of the empty
\* image of the next stop; every file holds frames of one session only, in
\* order from its first; a file that has been closed holds all of them; and
\* no two files hold frames of the same session.
Thm_C13 ==
    /\ [][accepted' # accepted => started]_vars
    /\ [](\A n \in Recorded :
            \E s \in 0 .. nstop :
               /\ IsPrefix(content[n], SessionFrames(s))
               /\ (n \in finalized => content[n] = SessionFrames(s)))
    /\ [](\A n1, n2 \in Recorded :
            n1 # n2 => content[n1][1] # content[n2][1]
                       /\ \A s \in 0 .. nstop :
                             ~(IsPrefix(content[n1], SessionFrames(s))
                               /\ IsPrefix(content[n2], SessionFrames(s))))

Wit_C13 ==
    /\ Cardinality(Recorded \cap finalized) = 2
    /\ lastReturn = "stop" /\ mainpc = "idle"

\* the number in a name made by Format
NumberOf(name) == name[2]

\* C14: at the end of a session that opened an encoder the file number
\* becomes the number of the file written plus one, and the file a session
\* opens is new to run() and has a number above those of all the files run()
\* opened before.
Thm_C14 ==
    /\ [][(wpc = "incr" /\ writerOpen /\ wpc' = "close")
            => itsFileNum' = NumberOf(itsFilename) + 1]_vars
    /\ [][(DOMAIN content' # DOMAIN content)
            => (/\ itsFilename' \notin DOMAIN content
                /\ DOMAIN content' = DOMAIN content \cup {itsFilename'}
                /\ \A n \in DOMAIN content :
                      NumberOf(n) < NumberOf(itsFilename'))]_vars

Wit_C14 ==
    /\ Cardinality(DOMAIN content) = 2 /\ wpc = "close" /\ writerOpen
    /\ itsFileNum = NumberOf(itsFilename) + 1

\* C16: a stop command that has been invoked eventually returns.
Cex_C16 == (mainpc \in {"s_push", "s_wait", "s_sync"}) ~> (mainpc = "idle")

\* C17: postUninit, once invoked, eventually returns.
Cex_C17 == (mainpc \in {"u_push", "u_join"}) ~> (mainpc = "uninit")

\* C18: run() never assigns itsFilename while process is reading it.
Cex_C18 == [][itsFilename' # itsFilename => mainpc # "p_draw"]_vars

\* C19: the step that opens the encoder either opens it or ends run();
\* when it ends run() no file is created, nothing is written and the file
\* number has only moved past names that exist; and once run() has ended so,
\* it stays ended: it pops nothing, writes nothing, opens nothing and
\* leaves the file number alone.
Thm_C19 ==
    /\ [][(wpc = "open" /\ wpc' # "open")
            => (wpc' = "fatal" \/ (wpc' = "write" /\ writerOpen'))]_vars
    /\ [][(wpc # "fatal" /\ wpc' = "fatal")
            => (/\ wpc = "open"
                /\ writerOpen' = FALSE /\ written' = written
                /\ files' = files /\ content' = content
                /\ (filename = "" => itsFileNum' = itsFileNum)
                /\ itsFileNum' >= itsFileNum
                /\ \A k \in itsFileNum .. (itsFileNum' - 1) :
                      Format(AddPrefix(filename), k) \in files)]_vars
    /\ [][wpc = "fatal"
            => (/\ wpc' = "fatal"
                /\ UNCHANGED <<written, writerOpen, itsFileNum, itsFilename,
                               files, content, frame, im>>
                /\ Len(itsBuf') >= Len(itsBuf))]_vars

Wit_C19 ==
    /\ wpc = "fatal" /\ filename # "" /\ Len(Frames(itsBuf)) = 2
    /\ written = <<>> /\ mainpc = "idle"

====
